---- MODULE Spec2Model ----
(***************************************************************************)
(* Model of teensy-controller/src/main.cpp: one rotary encoder drives a    *)
(* self-centering joystick X axis, one debounced button drives the space   *)
(* key.                                                                    *)
(*                                                                         *)
(* Numbers.  joystickXFloat and the three tuning constants are IEEE-754    *)
(* binary32 values.  A binary32 value v is represented by the integer      *)
(* v * 2^30 ("Q30").  The representation is exact for every value the      *)
(* program stores: the value at the start of a cycle is 0 or at least      *)
(* zeroThreshold (> 2^-7, so its last mantissa bit is worth >= 2^-30),     *)
(* delta * incrementStep is a multiple of 2^-28, and sums, differences and *)
(* roundings of multiples of 2^-30 to 24 significant bits are multiples of *)
(* 2^-30.  The one value that is finer than 2^-30 is a product below 2^-7  *)
(* in the decay step; it is compared with zeroThreshold and replaced by    *)
(* 0.0 in the same statement sequence, and rounding it to the Q30 grid     *)
(* keeps that comparison (RoundSig is monotone).  Every operation rounds   *)
(* to nearest, ties to even, as the hardware and the soft-float library    *)
(* do; in line 49 the product is rounded before the difference is taken.   *)
(* The expression in line 70 is evaluated in double precision, which is    *)
(* exact for these operands.                                               *)
(***************************************************************************)
EXTENDS Integers, Sequences, FiniteSets

(***************************************************************************)
(* Bounds of the model.                                                    *)
(***************************************************************************)
\* the environment turns the encoder at most this many times in a run
MaxRotations == 2
\* a fast turn moves the counter by this many ticks at once
BigTurn == 20
\* the counter is at most this far from the last value the loop processed
MaxDelta == 21
\* the raw button pin changes level at most this many times in a run
MaxToggles == 5
\* the mapping of lines 70-72 is tabulated on the multiples of 2^-MapBits
MapBits == 6
\* where the encoder and the switch both move, they move at most this many
\* times together in a run
MaxMoves == 2
\* where the run is followed until the axis has settled, the encoder turns
\* at most this many times
MaxSettleTurns == 1

(***************************************************************************)
(* binary32 arithmetic on Q30 integers.                                    *)
(***************************************************************************)
One == 2^30
Half == 2^29
Limb == 2^15

\* const float incrementStep = 0.05 : the binary32 nearest 0.05, 13421773 * 2^-28
incrementStep == 53687092
\* const float decayRate = 0.8 : the binary32 nearest 0.8, 13421773 * 2^-24
decayRate == 858993472
\* const float zeroThreshold = 0.01 : the binary32 nearest 0.01, 10737418 * 2^-30
zeroThreshold == 10737418

\* abs(x), the Arduino macro
abs(x) == IF x > 0 THEN x ELSE -x

Sign(x) == IF x > 0 THEN 1 ELSE IF x < 0 THEN -1 ELSE 0

\* constrain(amt, low, high), the Arduino macro
constrain(amt, low, high) ==
  IF amt < low THEN low ELSE IF amt > high THEN high ELSE amt

\* The number of low bits a magnitude i >= 2^24 loses when it is cut to a
\* 24 bit mantissa (0 when i < 2^24).
DropBits(i) ==
  CHOOSE k \in 0..7 : /\ (i \div 2^24) < 2^k
                      /\ (k = 0 \/ (i \div 2^24) >= 2^(k-1))

\* Round the non-negative exact value i + f / 2^30 (0 <= f < 2^30) to a
\* binary32 mantissa: nearest, ties to even.
RoundSig(i, f) ==
  LET k == DropBits(i)
      q == i \div 2^k
      r == i % 2^k
      up == IF k = 0
              THEN f > Half \/ (f = Half /\ q % 2 = 1)
              ELSE \/ r > 2^(k-1)
                   \/ (r = 2^(k-1) /\ (f > 0 \/ q % 2 = 1))
  IN  (q + (IF up THEN 1 ELSE 0)) * 2^k

\* float - float
FSub(a, b) == LET d == a - b IN Sign(d) * RoundSig(abs(d), 0)

\* float * float, for magnitudes up to 1.0
FMul(a, b) ==
  LET m  == abs(a)
      n  == abs(b)
      a1 == m \div Limb
      a0 == m % Limb
      b1 == n \div Limb
      b0 == n % Limb
      mid == a1 * b0 + a0 * b1
      low == (mid % Limb) * Limb + a0 * b0
      i  == a1 * b1 + (mid \div Limb) + (low \div One)
      f  == low % One
  IN  Sign(a) * Sign(b) * RoundSig(i, f)

\* (float) int * float: delta * effectiveIncrement, for |d * c| < 2.0
FMulInt(d, c) == Sign(d) * RoundSig(abs(d) * c, 0)

\* 512.0 + x * 511.0 in double precision, as [int, frac]: the value is
\* int + frac / 2^30 with 0 <= frac < 2^30 (exact).
AxisToDouble(x) ==
  LET m   == abs(x)
      t   == 511 * (m \div Limb)
      low == (t % Limb) * Limb + 511 * (m % Limb)
      pi  == (t \div Limb) + (low \div One)
      pf  == low % One
  IN  IF x >= 0 THEN [int |-> 512 + pi, frac |-> pf]
      ELSE IF pf = 0 THEN [int |-> 512 - pi, frac |-> 0]
      ELSE [int |-> 512 - pi - 1, frac |-> One - pf]

\* round(y) as a bare cast to long
roundTruncate(y) == y.int

\* round(y), the Arduino macro: (long)(y + 0.5) for y >= 0, (long)(y - 0.5)
\* for y < 0; the cast truncates toward zero.
round(y) ==
  IF y.int >= 0
    THEN y.int + (IF y.frac >= Half THEN 1 ELSE 0)
    ELSE y.int + (IF y.frac > Half THEN 1 ELSE 0)

(***************************************************************************)
(* The program's arithmetic, statement by statement.                       *)
(***************************************************************************)
\* lines 60-61 with the snap to zero left out
DecayValueNoSnap(x) == FMul(x, decayRate)

\* lines 60-61 with line 61 first: the value is tested against
\* zeroThreshold before it is multiplied
DecayValueSnapBefore(x) ==
  IF abs(x) < zeroThreshold THEN 0 ELSE FMul(x, decayRate)

\* lines 60-61 with the multiplication of line 60 left out when the value
\* is at an end of the range
DecayValueHoldFullScale(x) ==
  IF abs(x) = One THEN x
  ELSE LET y == FMul(x, decayRate)
       IN  IF abs(y) < zeroThreshold THEN 0 ELSE y

\* lines 60-61: joystickXFloat *= decayRate; snap to 0.0 below zeroThreshold
DecayValue(x) ==
  LET y == FMul(x, decayRate)
  IN  IF abs(y) < zeroThreshold THEN 0 ELSE y

\* lines 58-66: the value after the auto-centering block
AfterDecay(x) == IF x # 0 THEN DecayValue(x) ELSE x

\* lines 58-66 setting joystickNeedsUpdate in every cycle
DecayChangedAlways(x) == TRUE

\* lines 58-66 with lines 62-65 left out: the decay never sets
\* joystickNeedsUpdate
DecayChangedNever(x) == FALSE

\* lines 58-66 setting joystickNeedsUpdate only when the value snaps to 0.0
DecayChangedOnSnap(x) == x # 0 /\ DecayValue(x) = 0

\* lines 58-66: whether the auto-centering block sets joystickNeedsUpdate
DecayChanged(x) == x # 0 /\ DecayValue(x) # x

\* lines 48-51 without the constrain
ApplyDeltaUnclamped(x, d) == FSub(x, FMulInt(d, incrementStep))

\* lines 48-51 with the sign of the increment reversed
ApplyDeltaSameSign(x, d) ==
  constrain(FSub(x, FMulInt(-d, incrementStep)), -One, One)

\* lines 48-51 applied to the decayed value: decay first, increment second
ApplyDeltaOnDecayed(x, d) ==
  constrain(FSub(AfterDecay(x), FMulInt(d, incrementStep)), -One, One)

\* lines 48-51 applied only at rest: a value that is still decaying is left
\* to the decay
ApplyDeltaAtRestOnly(x, d) ==
  IF x = 0 THEN constrain(FSub(x, FMulInt(d, incrementStep)), -One, One)
  ELSE x

\* lines 48-51: constrain(joystickXFloat - delta * effectiveIncrement, -1.0, 1.0)
ApplyDelta(x, d) == constrain(FSub(x, FMulInt(d, incrementStep)), -One, One)

\* lines 70 and 72: the X value of the frame
XVal(x) == constrain(round(AxisToDouble(x)), 0, 1023)

\* line 71: the Y value of the frame
YVal == 512

\* lines 76-78 with the Y call left out
SendFrameXOnly(xVal, yVal) ==
  << [op |-> "X", arg |-> xVal], [op |-> "send_now", arg |-> 0] >>

\* lines 76-78 (and 32-34): the calls made on the Output Sink for one frame
SendFrame(xVal, yVal) ==
  << [op |-> "X", arg |-> xVal], [op |-> "Y", arg |-> yVal],
     [op |-> "send_now", arg |-> 0] >>

\* line 87 testing the level instead of the edge
fallingLevel(b) == ~b.state

\* line 87: button.fallingEdge()
fallingEdge(b) == (~b.state) /\ b.stateChanged

\* line 91 testing the level instead of the edge
risingLevel(b) == b.state

\* line 91: button.risingEdge()
risingEdge(b) == b.state /\ b.stateChanged

\* lines 87-94: the calls made on the key-event sink in one cycle
KeyCalls(b) ==
  (IF fallingEdge(b) THEN <<"press">> ELSE << >>)
    \o (IF risingEdge(b) THEN <<"release">> ELSE << >>)

\* line 38 without the refresh of the change flag: a change, once
\* reported, stays reported in the cycles that follow
BounceUpdateSticky(b, pin, elapsed) ==
  IF b.state # pin /\ elapsed
    THEN [state |-> pin, stateChanged |-> TRUE]
    ELSE [state |-> b.state, stateChanged |-> b.stateChanged]

\* line 38: Bounce::update() takes the pin level as the debounced state when
\* it differs and the 10 ms interval since the last change has elapsed
\* (elapsed), and reports whether the state changed.
BounceUpdate(b, pin, elapsed) ==
  IF b.state # pin /\ elapsed
    THEN [state |-> pin, stateChanged |-> TRUE]
    ELSE [state |-> b.state, stateChanged |-> FALSE]

\* line 43
Ticked(position, last) == position # last

\* line 45 advancing by one tick only
NextLastPositionOneTick(last, position) ==
  IF position > last THEN last + 1 ELSE last - 1

\* line 45
NextLastPosition(last, position) == position

\* line 52 moved out of the if block
EncoderDirtyAlways(position, last) == TRUE

\* line 52 left out
EncoderDirtyNever(position, last) == FALSE

\* line 52: the encoder block sets joystickNeedsUpdate when it runs
EncoderDirty(position, last) == Ticked(position, last)

(***************************************************************************)
(* State.                                                                  *)
(***************************************************************************)
VARIABLES
  pc,                    \* "setup" before setup() has run, then "loop"
  lastRun,               \* which of setup() and loop() ran last ("none" at first)
  encoder1,              \* the Encoder object's cumulative tick count
  encoder1Position,      \* line 14
  lastEncoder1Position,  \* line 15
  joystickXFloat,        \* line 20, as a Q30 integer
  joystickNeedsUpdate,   \* line 39, as the last cycle left it
  buttonPin,             \* level of BUTTON_PIN: TRUE is HIGH (released)
  button,                \* the Bounce object: debounced state, stateChanged
  Joystick,              \* the axis values staged in the Output Sink
  hidCalls,              \* Output Sink calls made by the last cycle (or setup)
  keyCalls,              \* key-event sink calls made by the last cycle
  \* what the last cycle did and the history of the run, read by the
  \* properties only
  delta,                 \* the tick delta of the last cycle (0 when none)
  xStart,                \* joystickXFloat when the last cycle began
  xInc,                  \* joystickXFloat after its encoder block (line 55)
  decayDirty,            \* whether its decay block set joystickNeedsUpdate
  sumDeltas,             \* sum of all deltas applied so far
  decayStart,            \* joystickXFloat after the last nonzero delta
  decayCalls,            \* decay multiplications since then
  edgeLog,               \* debounced edges reported by button.update()
  keyLog,                \* key events dispatched
  heldIdle,              \* a cycle passed with the button held and no edge
  bootState,             \* the debounced state button was constructed with
  rotations,             \* encoder movements so far
  toggles                \* pin level changes so far

vars == << pc, lastRun, encoder1, encoder1Position, lastEncoder1Position,
           joystickXFloat, joystickNeedsUpdate, buttonPin, button, Joystick,
           hidCalls, keyCalls, delta, xStart, xInc, decayDirty, sumDeltas,
           decayStart, decayCalls, edgeLog, keyLog, heldIdle, bootState,
           rotations, toggles >>

axisVars == << encoder1Position, lastEncoder1Position, joystickXFloat,
               joystickNeedsUpdate, delta, xStart, xInc, decayDirty,
               sumDeltas, decayStart, decayCalls >>
sinkVars == << Joystick, hidCalls >>
keyVars == << button, keyCalls, edgeLog, keyLog, heldIdle, bootState >>
envVars == << encoder1, buttonPin, rotations, toggles >>

\* lines 10-23: the globals as constructed; Bounce samples the pin when it
\* is constructed, and the button may be held while the board starts.
Init ==
  /\ pc = "setup"
  /\ lastRun = "none"
  /\ encoder1 = 0
  /\ encoder1Position = 0
  /\ lastEncoder1Position = 0
  /\ joystickXFloat = 0
  /\ joystickNeedsUpdate = FALSE
  /\ buttonPin \in BOOLEAN
  /\ button = [state |-> buttonPin, stateChanged |-> FALSE]
  /\ Joystick = [X |-> 0, Y |-> 0]
  /\ hidCalls = << >>
  /\ keyCalls = << >>
  /\ delta = 0
  /\ xStart = 0
  /\ xInc = 0
  /\ decayDirty = FALSE
  /\ sumDeltas = 0
  /\ decayStart = 0
  /\ decayCalls = 0
  /\ edgeLog = << >>
  /\ keyLog = << >>
  /\ heldIdle = FALSE
  /\ bootState = button.state
  /\ rotations = 0
  /\ toggles = 0

(***************************************************************************)
(* The environment.  It acts between two cycles: loop() spends its time in *)
(* delay(5), and a change that arrives while the other statements run is   *)
(* read by the same statement (line 38 or line 42) of the next cycle as    *)
(* one that arrives during the delay.                                      *)
(***************************************************************************)
\* The number of ticks whose increment is decayRate (16): turned back by
\* that much after a saturating turn has decayed once, the axis is at 0.0
\* after the increment step.
BackTurn == decayRate \div incrementStep

\* The shaft turns: the Encoder object's interrupt handlers move the count
\* by one tick, by BigTurn ticks when the shaft is spun fast, or by
\* BackTurn ticks back toward the position the shaft started in.
Rotate ==
  /\ pc = "loop"
  /\ rotations < MaxRotations
  /\ \E k \in {-BigTurn, -1, 1, BigTurn, -Sign(encoder1) * BackTurn} :
       /\ k # 0
       /\ abs(encoder1 + k - lastEncoder1Position) <= MaxDelta
       /\ encoder1' = encoder1 + k
  /\ rotations' = rotations + 1
  /\ UNCHANGED << pc, lastRun, buttonPin, toggles, axisVars, sinkVars, keyVars >>

\* The switch contact opens or closes (or bounces).
Toggle ==
  /\ pc = "loop"
  /\ toggles < MaxToggles
  /\ buttonPin' = ~buttonPin
  /\ toggles' = toggles + 1
  /\ UNCHANGED << pc, lastRun, encoder1, rotations, axisVars, sinkVars, keyVars >>

(***************************************************************************)
(* setup() and loop().                                                     *)
(***************************************************************************)
\* lines 25-35
Setup ==
  /\ pc = "setup"
  /\ Joystick' = [X |-> 512, Y |-> 512]
  /\ hidCalls' = SendFrame(512, 512)
  /\ pc' = "loop"
  /\ lastRun' = "setup"
  /\ UNCHANGED << axisVars, keyVars, envVars >>

\* One pass of loop(), lines 37-98.
Loop ==
  /\ pc = "loop"
  /\ \E elapsed \in BOOLEAN :
       \* line 38
       /\ button' = BounceUpdate(button, buttonPin, elapsed)
  /\ edgeLog' = IF button'.stateChanged
                  THEN Append(edgeLog, IF button'.state THEN "rising"
                                                        ELSE "falling")
                  ELSE edgeLog
  \* lines 42-55
  /\ encoder1Position' = encoder1
  /\ delta' = IF Ticked(encoder1Position', lastEncoder1Position)
                THEN encoder1Position' - lastEncoder1Position
                ELSE 0
  /\ lastEncoder1Position' =
       IF Ticked(encoder1Position', lastEncoder1Position)
         THEN NextLastPosition(lastEncoder1Position, encoder1Position')
         ELSE lastEncoder1Position
  /\ xInc' = IF Ticked(encoder1Position', lastEncoder1Position)
               THEN ApplyDelta(joystickXFloat, delta')
               ELSE joystickXFloat
  \* lines 58-66
  /\ joystickXFloat' = AfterDecay(xInc')
  /\ decayDirty' = DecayChanged(xInc')
  /\ joystickNeedsUpdate' =
       (EncoderDirty(encoder1Position', lastEncoder1Position) \/ decayDirty')
  \* lines 69-84
  /\ hidCalls' = IF joystickNeedsUpdate'
                   THEN SendFrame(XVal(joystickXFloat'), YVal)
                   ELSE << >>
  /\ Joystick' = IF joystickNeedsUpdate'
                   THEN [X |-> XVal(joystickXFloat'), Y |-> YVal]
                   ELSE Joystick
  \* lines 86-94
  /\ keyCalls' = KeyCalls(button')
  /\ keyLog' = keyLog \o keyCalls'
  \* history
  /\ xStart' = joystickXFloat
  /\ sumDeltas' = sumDeltas + delta'
  /\ decayStart' = IF delta' # 0 THEN xInc' ELSE decayStart
  /\ decayCalls' = IF xInc' = 0 THEN decayCalls
                   ELSE IF delta' # 0 THEN 1
                   ELSE decayCalls + 1
  /\ heldIdle' = IF fallingEdge(button') THEN FALSE
                 ELSE IF ~button'.state THEN TRUE
                 ELSE heldIdle
  /\ bootState' = bootState
  /\ pc' = "loop"
  /\ lastRun' = "loop"
  /\ UNCHANGED envVars

Next ==
  \/ Setup
  \/ Loop
  \/ Rotate
  \/ Toggle

\* The whole program with its environment.
Spec == Init /\ [][Next]_vars

\* The axis path: the encoder turns, the switch contact stays as it was
\* when the board started.
NextAxis ==
  \/ Setup
  \/ Loop
  \/ Rotate

SpecAxis == Init /\ [][NextAxis]_vars

\* The axis path followed until the axis has settled, with the scheduling
\* of the Arduino core: setup() is called once and returns, loop() is called
\* again whenever it has returned, and every call returns (delay(5) ends).
NextSettle ==
  \/ Setup
  \/ Loop
  \/ (rotations < MaxSettleTurns /\ Rotate)

SpecSettleFair ==
  Init /\ [][NextSettle]_vars /\ WF_vars(Setup) /\ WF_vars(Loop)

\* The key path: the switch contact moves, the encoder stands still.
NextKey ==
  \/ Setup
  \/ Loop
  \/ Toggle

SpecKey == Init /\ [][NextKey]_vars

\* Both paths at once: the encoder and the switch move in any order.
NextPair ==
  \/ Setup
  \/ Loop
  \/ (rotations + toggles < MaxMoves /\ Rotate)
  \/ (rotations + toggles < MaxMoves /\ Toggle)

SpecPair == Init /\ [][NextPair]_vars

(***************************************************************************)
(* Lines 69-78 on their own, for every axis value on a grid over           *)
(* [-1.0, 1.0]: the mapping is a pure function of joystickXFloat.          *)
(***************************************************************************)
Grid == 2^(30 - MapBits)

MapInputs == { j * Grid : j \in -(2^MapBits) .. 2^MapBits }

InitMap ==
  /\ pc = "hid"
  /\ lastRun = "none"
  /\ encoder1 = 0
  /\ encoder1Position = 0
  /\ lastEncoder1Position = 0
  /\ joystickXFloat \in MapInputs
  /\ joystickNeedsUpdate = TRUE
  /\ buttonPin = TRUE
  /\ button = [state |-> TRUE, stateChanged |-> FALSE]
  /\ Joystick = [X |-> 512, Y |-> 512]
  /\ hidCalls = << >>
  /\ keyCalls = << >>
  /\ delta = 0
  /\ xStart = joystickXFloat
  /\ xInc = joystickXFloat
  /\ decayDirty = FALSE
  /\ sumDeltas = 0
  /\ decayStart = 0
  /\ decayCalls = 0
  /\ edgeLog = << >>
  /\ keyLog = << >>
  /\ heldIdle = FALSE
  /\ bootState = button.state
  /\ rotations = 0
  /\ toggles = 0

\* lines 69-84 with joystickNeedsUpdate set
UpdateHid ==
  /\ pc = "hid"
  /\ joystickNeedsUpdate
  /\ hidCalls' = SendFrame(XVal(joystickXFloat), YVal)
  /\ Joystick' = [X |-> XVal(joystickXFloat), Y |-> YVal]
  /\ pc' = "sent"
  /\ UNCHANGED << lastRun, axisVars, keyVars, envVars >>

SpecMap == InitMap /\ [][UpdateHid]_vars

(***************************************************************************)
(* Properties.                                                             *)
(***************************************************************************)
\* the frame the last cycle dispatched, when it dispatched one
Dispatched == lastRun = "loop" /\ hidCalls # << >>

InRange(x) == -One <= x /\ x <= One

\* C1: AxisValue is within [-1.0, 1.0] at every observation point: when a
\* cycle begins, after its increment step, and after its decay step (which
\* is the end of the cycle).
C1_AxisInRange ==
  InRange(xStart) /\ InRange(xInc) /\ InRange(joystickXFloat)

\* a cycle in which the constrain of line 48 cut the value down to -1.0
C1_Witness ==
  /\ lastRun = "loop"
  /\ delta = MaxDelta
  /\ xInc = -One
  /\ joystickXFloat = -decayRate

\* C2: the key events dispatched are, one for one and in order, the
\* debounced edges: a press for a falling edge, a release for a rising
\* edge; a debounced press followed by a debounced release yields exactly
\* one key-down followed by exactly one key-up.
C2_OneKeyPerEdge ==
  /\ Len(keyLog) = Len(edgeLog)
  /\ \A i \in 1..Len(edgeLog) :
       keyLog[i] = (IF edgeLog[i] = "falling" THEN "press" ELSE "release")
  /\ (edgeLog = << "falling", "rising" >>
        => keyLog = << "press", "release" >>)

\* a press and a release with the button held over at least one whole
\* cycle in between, and contact bounces the debouncer ignored
C2_Witness ==
  /\ edgeLog = << "falling", "rising" >>
  /\ keyLog = << "press", "release" >>
  /\ heldIdle
  /\ toggles > 2

\* C3: a cycle with tick delta zero that begins with AxisValue 0.0 leaves
\* joystickNeedsUpdate false and makes no call on the Output Sink.
C3_NoFrameAtRest ==
  (lastRun = "loop" /\ delta = 0 /\ xStart = 0)
    => (~joystickNeedsUpdate /\ hidCalls = << >>)

\* such a cycle, after the axis has moved and come back to rest
C3_Witness ==
  /\ lastRun = "loop"
  /\ delta = 0
  /\ xStart = 0
  /\ sumDeltas # 0
  /\ hidCalls = << >>

\* floor(2^30 * 0.01 / 0.8^n) for n = 0 .. 21: a magnitude s (in Q30)
\* satisfies s * 0.8^n <= 0.01 exactly when s <= DecayThreshold[n + 1]
DecayThreshold ==
  << 10737418, 13421772, 16777216, 20971520, 26214400, 32768000, 40960000,
     51200000, 64000000, 80000000, 100000000, 125000000, 156250000,
     195312500, 244140625, 305175781, 381469726, 476837158, 596046447,
     745058059, 931322574, 1164153218 >>

\* ceil(log(0.01 / |start|) / log(0.8)): the least n with
\* |start| * 0.8^n <= 0.01; 0 stands for every value that is not positive
CeilLog(start) ==
  IF \E n \in 0..21 : abs(start) <= DecayThreshold[n + 1]
    THEN CHOOSE n \in 0..21 :
           /\ abs(start) <= DecayThreshold[n + 1]
           /\ \A m \in 0..(n - 1) : abs(start) > DecayThreshold[m + 1]
    ELSE 22

\* Since the last nonzero delta the axis went decayStart, ..., xInc,
\* joystickXFloat: xInc is the value before the last decay call and
\* joystickXFloat the value after it.
NoOvershoot ==
  /\ Sign(xInc) \in {0, Sign(decayStart)}
  /\ Sign(joystickXFloat) \in {0, Sign(decayStart)}
  /\ abs(joystickXFloat) <= abs(xInc)

\* C4 as stated: from a nonzero start the value after
\* ceil(log(zeroThreshold/|start|) / log(decayRate)) decay calls is 0.0, and
\* no value on the way has the opposite sign.
C4_Original ==
  (lastRun = "loop" /\ decayStart # 0)
    => /\ xInc # 0 => decayCalls - 1 < CeilLog(decayStart)
       /\ joystickXFloat # 0 => decayCalls < CeilLog(decayStart)
       /\ NoOvershoot

\* C4, amended: the value is 0.0 after at most
\* ceil(log(zeroThreshold/|start|) / log(decayRate)) + 1 decay calls (after
\* one call when |start| <= zeroThreshold), and no value on the way has the
\* opposite sign.  The increment can leave a nonzero value at or below
\* zeroThreshold, for which the formula is not positive; and decayRate is
\* stored as 0.800000012, so a start just below 0.01 / 0.8^n can need n + 1
\* calls where the formula gives n.
C4_DecayReachesZero ==
  (lastRun = "loop" /\ decayStart # 0)
    => /\ xInc # 0 => decayCalls - 1 < CeilLog(decayStart) + 1
       /\ joystickXFloat # 0 => decayCalls < CeilLog(decayStart) + 1
       /\ NoOvershoot

\* the decay from 1.0 has just reached 0.0, with its 21st call
C4_Witness ==
  /\ lastRun = "loop"
  /\ decayStart = One
  /\ xInc # 0
  /\ joystickXFloat = 0
  /\ decayCalls = 21

\* C5: on the grid, the X value of the frame is
\* clamp(round(512 + v * 511), 0, 1023), that is the integer within one half
\* of 512 + v * 511 (the upper one at a tie); 0 maps to 512, 1.0 to 1023
\* and -1.0 to 1.
C5_MapsToRounded ==
  pc = "sent" =>
    LET j == joystickXFloat \div Grid
        e == (2^MapBits) * (Joystick.X - 512) - 511 * j
    IN  /\ -(2^(MapBits - 1)) < e /\ e <= 2^(MapBits - 1)
        /\ Joystick.X \in 0..1023
        /\ joystickXFloat = 0 => Joystick.X = 512
        /\ joystickXFloat = One => Joystick.X = 1023
        /\ joystickXFloat = -One => Joystick.X = 1

\* the frame computed for the axis value 1.0
C5_Witness == pc = "sent" /\ joystickXFloat = One /\ Joystick.X = 1023

\* C6: every send_now on the Output Sink, the one of setup() included, comes
\* right after an X call with a value in 0..1023 and a Y call with 512.
C6_FramesComplete ==
  \A i \in 1..Len(hidCalls) :
    hidCalls[i].op = "send_now" =>
      /\ i >= 3
      /\ hidCalls[i - 2].op = "X"
      /\ hidCalls[i - 2].arg \in 0..1023
      /\ hidCalls[i - 1] = [op |-> "Y", arg |-> 512]

\* a frame sent by loop() with the axis off centre
C6_Witness ==
  /\ Dispatched
  /\ hidCalls[3].op = "send_now"
  /\ hidCalls[1].arg # 512

\* C7: a delta d applied at rest leaves, after the increment step,
\* clamp(-d * 0.05, -1, 1): -1.0 or 1.0 when |d| >= 20, and otherwise the
\* value -d / 20 to within one unit in the last place of binary32; a
\* positive delta makes the axis negative and a negative one positive.
C7_IncrementFromRest ==
  (lastRun = "loop" /\ xStart = 0 /\ delta # 0)
    => /\ Sign(xInc) = -Sign(delta)
       /\ abs(delta) >= 20 => abs(xInc) = One
       /\ abs(delta) < 20 =>
            LET k == DropBits(abs(xInc))
                m == abs(xInc) \div 2^k
            IN  /\ abs(xInc) % 2^k = 0
                /\ abs(10 * m - abs(delta) * 2^(29 - k)) <= 10

\* a positive delta past 20 applied at rest saturates at -1.0
C7_Witness ==
  /\ lastRun = "loop"
  /\ xStart = 0
  /\ delta > 20
  /\ xInc = -One

\* snap(v): magnitudes below zeroThreshold go to 0.0
Snap(v) == IF abs(v) < zeroThreshold THEN 0 ELSE v

\* C8: in a cycle with a nonzero delta d that begins at v, the increment
\* comes first and the decay second: the value after the increment step is
\* clamp(v - d * incrementStep, -1, 1) and the value at the end of the cycle
\* is snap(decayRate * clamp(v - d * incrementStep, -1, 1)).  From v = 0
\* with d = -2 that is 0.10 after the increment and 0.08 after the decay
\* (both to within one unit in the last place of binary32), and X = 553.
C8_IncrementThenDecay ==
  (lastRun = "loop" /\ delta # 0)
    => LET inc == constrain(FSub(xStart, FMulInt(delta, incrementStep)),
                            -One, One)
       IN  /\ xInc = inc
           /\ joystickXFloat = Snap(FMul(inc, decayRate))
           /\ (xStart = 0 /\ delta = -2)
                => /\ xInc % 8 = 0
                   /\ abs(10 * xInc - One) <= 10 * 8
                   /\ joystickXFloat % 8 = 0
                   /\ abs(25 * (joystickXFloat \div 8) - 2^28) <= 25
                   /\ hidCalls = SendFrame(553, 512)

\* the scenario: two ticks in the increasing direction at rest
C8_Witness ==
  /\ lastRun = "loop"
  /\ xStart = 0
  /\ delta = -2
  /\ hidCalls[1] = [op |-> "X", arg |-> 553]

\* C9: at the end of every cycle lastEncoder1Position is the count read in
\* that cycle, and the deltas applied so far add up to that count (the
\* count started at 0).
C9_NoTickLost ==
  lastRun = "loop"
    => /\ lastEncoder1Position = encoder1Position
       /\ sumDeltas = encoder1Position

\* the counter moved twice between two reads, and the cycle took both
\* ticks at once
C9_Witness ==
  /\ lastRun = "loop"
  /\ abs(delta) = 2
  /\ rotations = 2
  /\ encoder1Position = encoder1
  /\ sumDeltas = encoder1

\* C10 as stated: in every cycle that dispatches a frame, AxisValue at the
\* end of the cycle differs from AxisValue at its start.
C10_Original == Dispatched => joystickXFloat # xStart

\* C10, amended: in every cycle that dispatches a frame, the tick delta
\* was nonzero or AxisValue at the end of the cycle differs from AxisValue
\* at its start.
C10_FrameOnlyOnChange ==
  Dispatched => (delta # 0 \/ joystickXFloat # xStart)

\* a frame dispatched for a nonzero delta that left AxisValue where it was
C10_Witness ==
  /\ Dispatched
  /\ delta # 0
  /\ joystickXFloat = xStart

\* C11: every cycle whose tick delta is nonzero sets joystickNeedsUpdate
\* and dispatches exactly one frame (one X call, one Y call, one send_now),
\* whether or not the constrain of line 48 cut the increment, and also when
\* the increment brought the axis to exactly 0.0 so that the decay block
\* did not run.
C11_TickAlwaysDispatches ==
  (lastRun = "loop" /\ delta # 0)
    => /\ joystickNeedsUpdate
       /\ Len(hidCalls) = 3
       /\ Cardinality({i \in 1..Len(hidCalls) :
                         hidCalls[i].op = "send_now"}) = 1
       /\ hidCalls = SendFrame(XVal(joystickXFloat), YVal)

\* a tick cycle that began away from rest and in which the constrain cut
\* the increment down to the end of the range
C11_Witness ==
  /\ lastRun = "loop"
  /\ delta # 0
  /\ xStart # 0
  /\ abs(xInc) = One
  /\ abs(delta) * incrementStep > One - abs(xStart)
  /\ joystickNeedsUpdate
  /\ Len(hidCalls) = 3

\* C12: the decay block sets joystickNeedsUpdate exactly when the value it
\* finds (the value after the encoder block) is nonzero.  A nonzero value
\* is replaced by a different one of the same sign and smaller magnitude,
\* or by 0.0; the value 0.0 is left at 0.0.
C12_DecayReportsChange ==
  lastRun = "loop"
    => /\ decayDirty <=> (xInc # 0)
       /\ xInc # 0 => /\ joystickXFloat # xInc
                      /\ abs(joystickXFloat) < abs(xInc)
                      /\ Sign(joystickXFloat) \in {0, Sign(xInc)}
       /\ xInc = 0 => joystickXFloat = 0

\* a cycle without a tick in which the decay made the value smaller and
\* left it nonzero
C12_Witness ==
  /\ lastRun = "loop"
  /\ delta = 0
  /\ xInc # 0
  /\ joystickXFloat # 0
  /\ abs(joystickXFloat) < abs(xInc)
  /\ decayDirty

\* C13: in a cycle with a nonzero delta d that begins at a nonzero value v,
\* the increment and the decay are both applied: the value after the
\* encoder block is clamp(v - d * incrementStep, -1, 1), and the value at
\* the end of the cycle is that value multiplied by decayRate (snapped to
\* 0.0 below zeroThreshold); when the incremented value is nonzero the
\* decay block ran and changed it.
C13_BothInOneCycle ==
  (lastRun = "loop" /\ delta # 0 /\ xStart # 0)
    => /\ xInc = constrain(FSub(xStart, FMulInt(delta, incrementStep)),
                           -One, One)
       /\ joystickXFloat = Snap(FMul(xInc, decayRate))
       /\ xInc # 0 => (decayDirty /\ joystickXFloat # xInc)

\* a tick arrives while the axis is still decaying; the increment moves
\* the value and the decay of the same cycle shrinks the moved value
C13_Witness ==
  /\ lastRun = "loop"
  /\ delta # 0
  /\ xStart # 0
  /\ xInc # xStart
  /\ abs(xInc) < One
  /\ joystickXFloat # 0
  /\ joystickXFloat = FMul(xInc, decayRate)

\* C14: what a cycle does on the axis path is a function of the axis value
\* and the tick counts alone, and what it does on the key path is a function
\* of the debounced edge alone.  The value and lastEncoder1Position at the
\* end of the cycle and the frame dispatched (or none) are those computed
\* from the value at the start and the tick delta, whatever the switch
\* did, so the key handling leaves both unchanged and the frames of a run
\* depend on the tick readings only; a falling edge gives a press and a
\* rising edge a release, whether or not the cycle dispatched a frame.
C14_KeyIndependent ==
  [][Loop =>
       LET d == encoder1 - lastEncoder1Position
           inc == IF d # 0
                    THEN constrain(FSub(joystickXFloat,
                                        FMulInt(d, incrementStep)), -One, One)
                    ELSE joystickXFloat
           end == Snap(FMul(inc, decayRate))
       IN  /\ joystickXFloat' = end
           /\ lastEncoder1Position' = encoder1
           /\ hidCalls' = IF d # 0 \/ end # inc
                            THEN SendFrame(XVal(end), YVal)
                            ELSE << >>
           /\ keyCalls' = IF ~button'.stateChanged THEN << >>
                          ELSE IF button'.state THEN << "release" >>
                          ELSE << "press" >>]_vars

\* a press dispatched in a cycle that also took a tick and dispatched a
\* frame
C14_Witness ==
  /\ lastRun = "loop"
  /\ keyCalls = << "press" >>
  /\ delta # 0
  /\ hidCalls = SendFrame(XVal(joystickXFloat), YVal)
  /\ joystickXFloat # 0

\* C15: when a cycle begins and when it ends (so also in the frame it
\* dispatches) AxisValue is exactly 0.0 or has magnitude at least
\* zeroThreshold; a nonzero value below zeroThreshold occurs only after the
\* encoder block and is gone when the decay block has run.
C15_DeadbandAtCycleEnd ==
  /\ joystickXFloat = 0 \/ abs(joystickXFloat) >= zeroThreshold
  /\ xStart = 0 \/ abs(xStart) >= zeroThreshold
  /\ (xInc # 0 /\ abs(xInc) < zeroThreshold) => joystickXFloat = 0
  /\ Dispatched =>
       \/ hidCalls[1].arg = 512
       \/ abs(joystickXFloat) >= zeroThreshold

\* a tick left a nonzero value below zeroThreshold after the encoder block,
\* and the cycle ended at 0.0 with the centre dispatched
C15_Witness ==
  /\ lastRun = "loop"
  /\ delta # 0
  /\ xInc # 0
  /\ abs(xInc) < zeroThreshold
  /\ joystickXFloat = 0
  /\ hidCalls = SendFrame(512, YVal)

\* C16: at the end of every cycle, and so in every frame loop() dispatches,
\* |AxisValue| <= decayRate, and the X value dispatched lies in 103..921;
\* loop() never dispatches 1023 or 1.
C16_DispatchWithinDecayRate ==
  lastRun = "loop"
    => /\ abs(joystickXFloat) <= decayRate
       /\ Dispatched => /\ hidCalls[1].op = "X"
                        /\ hidCalls[1].arg \in 103..921
                        /\ hidCalls[1].arg \notin {1, 1023}
                        /\ Joystick.X = hidCalls[1].arg

\* the increment saturated at -1.0 and the frame carries the low end of the
\* dispatched range; the high end is the image of decayRate, and full scale
\* (the image of 1.0) lies outside the range
C16_Witness ==
  /\ Dispatched
  /\ xInc = -One
  /\ joystickXFloat = -decayRate
  /\ hidCalls[1].arg = 103
  /\ XVal(decayRate) = 921
  /\ XVal(One) = 1023

\* C17: if from some cycle on the tick counter stays at the value loop()
\* has read, then from some cycle on AxisValue is 0.0 for good, the frame
\* dispatched last carries X = 512 and Y = 512, and the cycles dispatch no
\* frame.
C17_SettlesAtCentre ==
  <>[](encoder1 = lastEncoder1Position)
    => <>[](/\ joystickXFloat = 0
            /\ Joystick = [X |-> 512, Y |-> YVal]
            /\ hidCalls = << >>)

\* the axis was moved, has decayed to 0.0 with the centre dispatched, and
\* a further cycle has passed without a frame
C17_Witness ==
  /\ lastRun = "loop"
  /\ rotations > 0
  /\ decayStart # 0
  /\ encoder1 = lastEncoder1Position
  /\ xStart = 0
  /\ joystickXFloat = 0
  /\ Joystick = [X |-> 512, Y |-> YVal]
  /\ hidCalls = << >>

\* C18: in a run in which the debounced state of the switch is released
\* when the Bounce object is constructed, a cycle dispatches at most one
\* key event, and the key events of the run are press, release, press, ...
\* in strict alternation beginning with a press.
C18_KeysAlternate ==
  bootState
    => /\ Len(keyCalls) <= 1
       /\ \A i \in 1..Len(keyLog) :
            keyLog[i] = (IF i % 2 = 1 THEN "press" ELSE "release")

\* the button was pressed, released and pressed again, and was held over a
\* whole cycle without a second press being dispatched
C18_Witness ==
  /\ bootState
  /\ keyLog = << "press", "release", "press" >>
  /\ keyCalls = << >>
  /\ heldIdle
  /\ ~button.state

====
